---- MODULE Spec2Model ----
(***************************************************************************)
(* Model of the depth-first forest engine of pgm-rust                      *)
(* (src/graph/ops/graph/search.rs) together with the part of the graph     *)
(* data model it reads (Graph::vertices, vmap, get_other, edges_of,        *)
(* outgoing_edges_of, is_in).                                              *)
(*                                                                         *)
(* Vertex identifiers "n1", "n2", ... are modelled by the integers 1, 2,   *)
(* ...; with at most nine vertices the lexicographic order of the strings  *)
(* (Vec<String>::sort) is the order of the integers.  Option<T> is         *)
(* modelled by sequences of length at most one: None is << >> and Some(x)  *)
(* is <<x>>.  A HashMap is a function whose DOMAIN is its key set.         *)
(***************************************************************************)
EXTENDS Integers, Sequences, FiniteSets, TLC

VARIABLES
    g,               \* the graph: [nodes, edges] as stored by Graph (gdata)
    edge_generator,  \* which neighbor-generator the caller passed
    check_cycle,     \* the check_cycle flag
    start_node,      \* Option<node id>: the start_node argument
    vlist,           \* what is left of `for u in vlist`
    vertices,        \* key set of the vertices map of depth_first_search
    marked,          \* HashMap<String, bool>
    d,               \* first visit times
    f,               \* last visit times
    pred,            \* pred map of the tree being built
    identifiers,     \* identifiers set of the tree being built
    cycles,          \* HashMap<String, Vec<CycleInfo>>
    time,            \* the visit counter
    stack,           \* call stack of dfs_forest: frames [u, edges, i, phase]
    root,            \* Option: the u of the running `for u in vlist` iteration
    preds,           \* root -> pred map of its tree
    ids,             \* root -> identifiers of its tree
    forest,          \* root -> tree edges of its tree
    result,          \* Option<DepthFirstResult>
    pc,              \* "driver", "visit", "done" or "panic"
    panicMsg,        \* message of the panic that ended the call, or ""
    prev,            \* Option<DepthFirstResult> of the preceding invocation
    call             \* the last call of an operation of the graph data model:
                     \* its name, its arguments and what it returned

inputs == <<g, edge_generator, check_cycle, start_node>>
record == <<vertices, marked, d, f, pred, identifiers, cycles, time>>
driver == <<vlist, root, preds, ids, forest, result>>
vars == <<inputs, record, driver, stack, pc, panicMsg, prev, call>>

-----------------------------------------------------------------------------
(* Bounds of the model *)

\* vertex identifiers of the enumerated graphs are 1..MaxNode
MaxNode == 3
\* the enumerated graphs hold at most MaxEdges edges
MaxEdges == 2

\* stands for usize::MAX, the "unvisited" sentinel: only its being larger
\* than every timestamp is used (timestamps stay below 2 * |V| + 1)
USIZE_MAX == 1000000

NodeIds == 1..MaxNode

None == << >>
Some(x) == <<x>>

-----------------------------------------------------------------------------
(* Graph data model *)

\* Edge::empty(e_id, kind, n1_id, n2_id): an edge from start to end
MkEdge(s, t) == [id |-> 10 * s + t, start |-> s, end |-> t]

\* Edge::eq: the identifiers of the two EdgeInfo are compared, nothing else
EdgeEq(a, b) == a.id = b.id

\* Edge::hash: what the edge feeds to the hasher
EdgeHashed(e) == <<e.id, e.start, e.end>>

\* HashSet<Edge>::insert(e), as the sets it can leave. An element that feeds
\* the hasher the same values and is equal to e keeps e out. An element
\* that is equal to e but feeds other values is found only when the two
\* hashes collide: e is added, or dropped on a collision.
HashSetInsert(S, e) ==
    IF \E x \in S : EdgeEq(x, e) /\ EdgeHashed(x) = EdgeHashed(e) THEN {S}
    ELSE IF \E x \in S : EdgeEq(x, e) THEN {S \cup {e}, S}
    ELSE {S \cup {e}}

\* HashSet<&Edge>::contains(e), as the answers it can give: an element that
\* is equal to e but feeds the hasher other values is found only when the
\* two hashes collide
HashSetContains(S, e) ==
    IF \E x \in S : EdgeEq(x, e) /\ EdgeHashed(x) = EdgeHashed(e) THEN {TRUE}
    ELSE IF \E x \in S : EdgeEq(x, e) THEN {FALSE, TRUE}
    ELSE {FALSE}

\* the sets a fresh HashSet can hold after every edge of K was inserted:
\* every edge of K has an equal edge in the set (see HashSetInsert)
HashSetFrom(K) ==
    {R \in SUBSET K :
        \A e \in K : \E x \in R : EdgeEq(x, e)}

\* the edges of a1 that a2.contains does not find (HashSet::difference)
NotFoundIn(a1, a2) ==
    {X \in SUBSET a1 : \A e \in a1 : (e \notin X) \in HashSetContains(a2, e)}

\* the edges of a1 that a2.contains finds
FoundIn(a1, a2) ==
    {X \in SUBSET a1 : \A e \in a1 : (e \in X) \in HashSetContains(a2, e)}

\* difference_edges: the edges of a1 that a2.contains does not find, inserted
\* into a fresh set
DifferenceEdges(a1, a2) == UNION {HashSetFrom(K) : K \in NotFoundIn(a1, a2)}

\* intersection_edges: HashSet::intersection walks the smaller set and looks
\* its elements up in the larger one
IntersectionEdges(a1, a2) ==
    IF Cardinality(a1) <= Cardinality(a2)
    THEN UNION {HashSetFrom(K) : K \in FoundIn(a1, a2)}
    ELSE UNION {HashSetFrom(K) : K \in FoundIn(a2, a1)}

\* union_edges: HashSet::union walks the larger set, then the elements of
\* the smaller one that the larger does not hold
UnionEdges(a1, a2) ==
    IF Cardinality(a1) >= Cardinality(a2)
    THEN UNION {HashSetFrom(a1 \cup K) : K \in NotFoundIn(a2, a1)}
    ELSE UNION {HashSetFrom(a2 \cup K) : K \in NotFoundIn(a1, a2)}

\* symmetric_difference_edges: a1.difference(a2) chained with
\* a2.difference(a1)
SymmetricDifferenceEdges(a1, a2) ==
    UNION {HashSetFrom(K1 \cup K2) : K1 \in NotFoundIn(a1, a2), K2 \in NotFoundIn(a2, a1)}

GraphSetOps == {"union_graph", "intersection", "difference", "symmetric_difference"}

\* the node-set half of a whole-graph operation; nodes hash and compare by
\* identifier
NodeSetOp(op, vs1, vs2) ==
    CASE op = "union_graph" -> vs1 \cup vs2
      [] op = "intersection" -> vs1 \cap vs2
      [] op = "difference" -> vs1 \ vs2
      [] op = "symmetric_difference" -> (vs1 \ vs2) \cup (vs2 \ vs1)

\* the edge-set half
EdgeSetOp(op, es1, es2) ==
    CASE op = "union_graph" -> UnionEdges(es1, es2)
      [] op = "intersection" -> IntersectionEdges(es1, es2)
      [] op = "difference" -> DifferenceEdges(es1, es2)
      [] op = "symmetric_difference" -> SymmetricDifferenceEdges(es1, es2)

\* get_vertices: the stored node set keeps the nodes that are no endpoint
GetVertices(nodes, edges) ==
    LET nset == {e.start : e \in edges} \cup {e.end : e \in edges}
    IN  <<edges, {n \in nodes : n \notin nset}>>

\* Graph::new
GraphNew(nodes, edges) ==
    LET p == GetVertices(nodes, edges)
    IN  [nodes |-> p[2], edges |-> p[1]]

\* a vertex set that reads the stored node set only
VerticesStoredOnly(gr) == gr.nodes

\* Graph::vertices
Vertices(gr) ==
    {e.start : e \in gr.edges} \cup {e.end : e \in gr.edges} \cup gr.nodes

\* Graph::edges
Edges(gr) == gr.edges

\* a node filter with the test inverted: it keeps the endpoints
GetVerticesFromRefsetInverted(nodes, edges) ==
    LET nset == {e.start : e \in edges} \cup {e.end : e \in edges}
    IN  <<edges, {n \in nodes : n \in nset}>>

\* get_vertices_from_refset: clones the edges and keeps the nodes that are
\* no endpoint
GetVerticesFromRefset(nodes, edges) ==
    LET nset == {e.start : e \in edges} \cup {e.end : e \in edges}
    IN  <<edges, {n \in nodes : n \notin nset}>>

\* Graph::new_refs
GraphNewRefs(nodes, edges) ==
    LET p == GetVerticesFromRefset(nodes, edges)
    IN  [nodes |-> p[2], edges |-> p[1]]

\* Graph::from_edge_node_refs_set
FromEdgeNodeRefsSet(edges, nodes) ==
    LET p == GetVerticesFromRefset(nodes, edges)
    IN  [nodes |-> p[2], edges |-> p[1]]

\* Graph::from_edgeset
FromEdgeset(edges) == [nodes |-> {}, edges |-> edges]

\* Graph::from_edge_node_set
FromEdgeNodeSet(edges, nodes) ==
    LET p == GetVertices(nodes, edges)
    IN  [nodes |-> p[2], edges |-> p[1]]

\* a filter that keeps an edge as soon as one endpoint is in nodes
BasedOnNodeSetEither(edges, nodes) ==
    LET medges == {e \in edges : e.start \in nodes \/ e.end \in nodes}
        p == GetVertices(nodes, medges)
    IN  [nodes |-> p[2], edges |-> p[1]]

\* Graph::based_on_node_set
BasedOnNodeSet(edges, nodes) ==
    LET medges == {e \in edges : e.start \in nodes /\ e.end \in nodes}
        p == GetVertices(nodes, medges)
    IN  [nodes |-> p[2], edges |-> p[1]]

\* an emptiness test that looks at the edges only
IsEmptyNoEdges(gr) == gr.edges = {}

\* is_empty
IsEmpty(gr) == Vertices(gr) = {}

\* Graph::vmap: the key set of the id -> node map
Vmap(gr) == Vertices(gr)

\* is_in(g, element): element is an edge id, an endpoint id or a vertex id
IsIn(gr, eid) ==
    \/ \E e \in Edges(gr) : e.id = eid \/ e.start = eid \/ e.end = eid
    \/ \E n \in Vertices(gr) : n = eid

\* is_endvertice
IsEndvertice(e, n) == n \in {e.start, e.end}

\* an endpoint test that returns the endpoint it matched
GetOtherSameEnd(e, n) ==
    IF e.start = n THEN Some(e.start)
    ELSE IF e.end = n THEN Some(e.end)
    ELSE None

\* get_other: Option<node id>
GetOther(e, n) ==
    IF e.start = n THEN Some(e.end)
    ELSE IF e.end = n THEN Some(e.start)
    ELSE None

\* mk_edgeset with the condition of edges_of / outgoing_edges_of;
\* it panics when the node is not in the graph
EdgesOf(gr, n) ==
    IF ~IsIn(gr, n) THEN [panic |-> TRUE, edges |-> {}]
    ELSE [panic |-> FALSE, edges |-> {e \in Edges(gr) : IsEndvertice(e, n)}]

\* neighbors_of: panics when n is not in the graph, else collects the value
\* of get_other for every edge that has n as an endpoint
NeighborsOf(gr, n) ==
    IF ~IsIn(gr, n) THEN [panic |-> TRUE, err |-> None, nodes |-> {}]
    ELSE [panic |-> FALSE, err |-> None,
          nodes |-> {GetOther(e, n)[1] : e \in {x \in Edges(gr) : IsEndvertice(x, n)}}]

OutgoingEdgesOf(gr, n) ==
    IF ~IsIn(gr, n) THEN [panic |-> TRUE, edges |-> {}]
    ELSE [panic |-> FALSE, edges |-> {e \in Edges(gr) : e.start = n}]

\* an incoming-edge filter that tests the start of the edge
IncomingAsOutgoing(gr, n) ==
    IF ~IsIn(gr, n) THEN [panic |-> TRUE, edges |-> {}]
    ELSE [panic |-> FALSE, edges |-> {e \in Edges(gr) : e.start = n}]

\* incoming_edges_of: mk_edgeset with the condition e.end().id() == n.id()
IncomingEdgesOf(gr, n) ==
    IF ~IsIn(gr, n) THEN [panic |-> TRUE, edges |-> {}]
    ELSE [panic |-> FALSE, edges |-> {e \in Edges(gr) : e.end = n}]

\* the edge policies a caller passes to get_subgraph_by_vertices: none, the
\* inclusive policy (either endpoint in the subset), or a policy that looks
\* at the start of the edge only
EdgePolicies == {None, Some("either"), Some("start")}

\* policy(e, vs) of get_subgraph_by_vertices
Policy(edge_policy, e, vs) ==
    IF edge_policy = None THEN e.start \in vs /\ e.end \in vs
    ELSE IF edge_policy = Some("either") THEN e.start \in vs \/ e.end \in vs
    ELSE e.start \in vs

\* a subgraph that returns the node set it was given
SubgraphNodesAsGiven(gr, ns, edge_policy) ==
    [nodes |-> ns, edges |-> {e \in Edges(gr) : Policy(edge_policy, e, ns)}]

\* get_subgraph_by_vertices: (nset, eset)
GetSubgraphByVertices(gr, ns, edge_policy) ==
    [nodes |-> {n \in Vertices(gr) : n \in ns},
     edges |-> {e \in Edges(gr) : Policy(edge_policy, e, ns)}]

\* by_id over a set of [id, obj] records, as the outcomes it can have: the
\* first element met with that identifier, or a panic when none has it
ById(S, id) ==
    IF \E h \in S : h.id = id
    THEN {[panic |-> FALSE, err |-> None, value |-> Some(h.obj)] : h \in {x \in S : x.id = id}}
    ELSE {[panic |-> TRUE, err |-> None, value |-> None]}

\* vertex_by_id: by_id over g.vertices()
VertexById(gr, vid) == ById({[id |-> n, obj |-> n] : n \in Vertices(gr)}, vid)

\* edge_by_id: by_id over g.edges()
EdgeById(gr, eid) == ById({[id |-> e.id, obj |-> e] : e \in Edges(gr)}, eid)

\* union_graph, intersection, difference, symmetric_difference: the two set
\* operations, then G::create_from_ref on their results
GraphSetOp(op, a1, a2) ==
    {GraphNewRefs(NodeSetOp(op, Vertices(a1), Vertices(a2)), es) :
        es \in EdgeSetOp(op, Edges(a1), Edges(a2))}

\* the F: Fn(&N) -> HashSet<&E> argument of depth_first_search
Generators == {"edges_of", "outgoing_edges_of"}

\* a generator a caller can pass as well: it returns every edge of the
\* graph, whatever the node
AllEdges(gr, n) == [panic |-> FALSE, edges |-> Edges(gr)]

EdgeGenerator(gen, gr, n) ==
    IF gen = "edges_of" THEN EdgesOf(gr, n)
    ELSE IF gen = "outgoing_edges_of" THEN OutgoingEdgesOf(gr, n)
    ELSE AllEdges(gr, n)

\* the orders in which `for edge in &edges` can walk a HashSet
Perms(S) ==
    {s \in [1..Cardinality(S) -> S] :
        \A i, j \in 1..Cardinality(S) : i # j => s[i] # s[j]}

\* Vec::sort of a key set
RECURSIVE SortedSeq(_)
SortedSeq(S) ==
    IF S = {} THEN << >>
    ELSE LET m == CHOOSE x \in S : \A y \in S : x <= y
         IN  <<m>> \o SortedSeq(S \ {m})

-----------------------------------------------------------------------------
(* Graphs the traversal is run on *)

EdgeUniverse == {MkEdge(s, t) : s, t \in NodeIds}

SmallGraphs ==
    {GraphNew(ns, es) :
        ns \in SUBSET NodeIds,
        es \in {x \in SUBSET EdgeUniverse : Cardinality(x) <= MaxEdges}}

\* undirected triangle n1-n2, n2-n3, n3-n1
TriangleGraph == GraphNew({1, 2, 3}, {MkEdge(1, 2), MkEdge(2, 3), MkEdge(3, 1)})

\* star n1-n2, n2-n3, n2-n4 plus the isolated n5
StarGraph == GraphNew({1, 2, 3, 4, 5}, {MkEdge(1, 2), MkEdge(2, 3), MkEdge(2, 4)})

\* directed path n1 -> n2 -> n3
PathGraph == GraphNew({1, 2, 3}, {MkEdge(1, 2), MkEdge(2, 3)})

Graphs == SmallGraphs \cup {TriangleGraph, StarGraph, PathGraph}

StartNodes == {None} \cup {Some(n) : n \in NodeIds}

-----------------------------------------------------------------------------
(* Result types *)

\* CycleInfo::create
CycleInfoCreate(ancestor, before, first_time, last_time, final_time) ==
    [ancestor |-> ancestor,
     before |-> before,
     ancestor_first_time_visit |-> first_time,
     ancestor_last_time_visit |-> last_time,
     current_final_time_visit |-> final_time]

\* a count that is one too high
NbComponentOffByOne(components) == Cardinality(DOMAIN components) + 1

\* the _nb_component field set by DepthFirstResult::create
NbComponent(components) == Cardinality(DOMAIN components)

\* DepthFirstResult::create
DepthFirstResultCreate(forest_, tree, components, visit_times, cycle) ==
    [forest |-> forest_,
     trees |-> tree,
     nb_component |-> NbComponent(components),
     components |-> components,
     first_visit_times |-> visit_times[1],
     last_visit_times |-> visit_times[2],
     cycle_info |-> cycle]

-----------------------------------------------------------------------------
(* depth_first_search: set-up *)

\* get_vertex_lst: the start node is inserted into the vertex map, and the
\* keys of the map are sorted
GetVertexLst(vs, start) ==
    LET ns == IF start = None THEN vs ELSE vs \cup {start[1]}
    IN  <<SortedSeq(ns), ns>>

\* a counter that is read and never advanced
TickStuck(t) == t

\* a clock that skips a value
TickTwice(t) == t + 2

\* *time += 1
Tick(t) == t + 1

\* the empty HashMap
EmptyMap == [x \in {} |-> 0]

\* no operation of the data model has been called
NoCall == [op |-> "none"]

\* the locals of depth_first_search before its loop (lines 240-248), and
\* the rest of the state of a call that has made no step yet
SetUp(gr, start) ==
    LET p == GetVertexLst(Vmap(gr), start)
    IN  [vlist |-> p[1],
         vertices |-> p[2],
         time |-> 0,
         marked |-> [x \in p[2] |-> FALSE],
         preds |-> EmptyMap,
         ids |-> EmptyMap,
         forest |-> EmptyMap,
         cycles |-> EmptyMap,
         d |-> [x \in p[2] |-> USIZE_MAX],
         f |-> [x \in p[2] |-> USIZE_MAX]]

\* the state when depth_first_search is called with one of the generators
\* gens
CalledWith(gens) ==
    /\ g \in Graphs
    /\ edge_generator \in gens
    /\ check_cycle \in BOOLEAN
    /\ start_node \in StartNodes
    /\ prev = None
    /\ call = NoCall
    /\ LET s == SetUp(g, start_node)
       IN  /\ vlist = s.vlist /\ vertices = s.vertices /\ time = s.time
           /\ marked = s.marked /\ preds = s.preds /\ ids = s.ids
           /\ forest = s.forest /\ cycles = s.cycles /\ d = s.d /\ f = s.f
    /\ pred = EmptyMap
    /\ identifiers = {}
    /\ stack = << >>
    /\ root = None
    /\ result = None
    /\ pc = "driver"
    /\ panicMsg = ""

Init == CalledWith(Generators)

\* depth_first_search is called with the generator that returns every edge
InitAllEdges == CalledWith({"all_edges"})

-----------------------------------------------------------------------------
(* dfs_forest *)

Top == stack[Len(stack)]

Panic(msg) ==
    /\ pc' = "panic"
    /\ panicMsg' = msg

\* the frame of a dfs_forest call on u whose edge set is walked in `order`
Frame(u, order) == [u |-> u, edges |-> order, i |-> 1, phase |-> "explore"]

\* the frames below the top, the top having moved to its next edge
Advance(stk) == [stk EXCEPT ![Len(stk)].i = @ + 1]

\* HashMap::insert
Insert(map, k, v) == [x \in DOMAIN map \cup {k} |-> IF x = k THEN v ELSE map[x]]

\* dfs_forest lines 45-55: mark u, stamp its first visit, fetch its edges;
\* stk is the stack of the callers.  time is the `&mut usize` of the
\* signature of dfs_forest: one counter shared by all the calls.
Visit(u, stk) ==
    /\ marked' = Insert(marked, u, TRUE)
    /\ time' = Tick(time)
    /\ d' = Insert(d, u, Tick(time))
    /\ IF u \notin vertices
       THEN Panic("node not in vertices") /\ stack' = stk
       ELSE LET r == EdgeGenerator(edge_generator, g, u)
            IN  IF r.panic
                THEN Panic("graph does not contain node") /\ stack' = stk
                ELSE /\ \E order \in Perms(r.edges) :
                            stack' = Append(stk, Frame(u, order))
                     /\ pc' = "visit"
                     /\ UNCHANGED panicMsg

\* The source declares preds and ids (lines 244-245) and never fills them, and
\* it keeps no tree edges; the three definitions below follow the design
\* document (step 3 of the algorithm): the component and the predecessor map
\* of a tree are what dfs_forest left in identifiers and pred, keyed by the
\* root, and the tree edges are the edges along which a vertex was discovered.
TreeComplete(r) ==
    /\ ids' = Insert(ids, r, identifiers)
    /\ preds' = Insert(preds, r, pred)

NewTree(fr, r) == Insert(fr, r, {})

AddTreeEdge(fr, r, e) == [fr EXCEPT ![r] = @ \cup {e}]

\* a dfs_forest call returns: its frame is popped; when it was the call made
\* by depth_first_search the tree is complete
Return(stk) ==
    /\ stack' = SubSeq(stk, 1, Len(stk) - 1)
    /\ UNCHANGED panicMsg
    /\ IF Len(stk) = 1
       THEN /\ pc' = "driver"
            /\ TreeComplete(root[1])
       ELSE /\ pc' = "visit"
            /\ UNCHANGED <<ids, preds>>

\* depth_first_search lines 249-276: one iteration of `for u in vlist`
DriverNext ==
    /\ pc = "driver"
    /\ vlist # << >>
    /\ LET u == Head(vlist)
       IN  /\ vlist' = Tail(vlist)
           /\ IF u \notin DOMAIN marked
              THEN /\ Panic("key not exist in marked")
                   /\ UNCHANGED <<record, stack, root, preds, ids, forest>>
              ELSE IF marked[u]
              THEN UNCHANGED <<record, stack, root, preds, ids, forest,
                               pc, panicMsg>>
              ELSE /\ identifiers' = {}
                   /\ pred' = [x \in vertices |-> None]
                   /\ root' = Some(u)
                   /\ forest' = NewTree(forest, u)
                   /\ Visit(u, << >>)
                   /\ UNCHANGED <<vertices, f, cycles, preds, ids>>
    /\ UNCHANGED <<call, inputs, result, prev>>

\* dfs_forest lines 56-75 (one edge of the loop) with
\* insert_to_pred_identifiers and the start of the recursive call
ExploreEdge ==
    /\ pc = "visit"
    /\ Top.phase = "explore"
    /\ Top.i <= Len(Top.edges)
    /\ LET u == Top.u
           edge == Top.edges[Top.i]
           vnode == GetOther(edge, u)
       IN  IF vnode = None
           THEN /\ Panic("get_other returned None")
                /\ UNCHANGED <<record, stack, forest>>
           ELSE LET v == vnode[1]
                IN  IF v \notin DOMAIN marked
                    THEN /\ Panic("node not in vertices")
                         /\ UNCHANGED <<record, stack, forest>>
                    ELSE IF ~marked[v]
                    THEN /\ pred' = Insert(pred, v, Some(u))
                         /\ identifiers' = identifiers \cup {v}
                         /\ forest' = AddTreeEdge(forest, root[1], edge)
                         /\ Visit(v, Advance(stack))
                         /\ UNCHANGED <<vertices, f, cycles>>
                    ELSE /\ stack' = Advance(stack)
                         /\ UNCHANGED <<record, forest, pc, panicMsg>>
    /\ UNCHANGED <<call, inputs, vlist, root, preds, ids, result, prev>>

\* dfs_forest lines 77-79 and 138-141: the last visit time is stamped; without
\* check_cycle the call returns
Finish ==
    /\ pc = "visit"
    /\ Top.phase = "explore"
    /\ Top.i > Len(Top.edges)
    /\ time' = Tick(time)
    /\ f' = Insert(f, Top.u, Tick(time))
    /\ IF check_cycle
       THEN /\ stack' = [stack EXCEPT ![Len(stack)].phase = "check",
                                      ![Len(stack)].i = 1]
            /\ UNCHANGED <<pc, panicMsg, ids, preds>>
       ELSE Return(stack)
    /\ UNCHANGED <<call, inputs, vertices, marked, d, pred, identifiers, cycles,
                   vlist, root, forest, result, prev>>

\* dfs_forest lines 84-137: one edge of the cycle loop
CheckEdge ==
    /\ pc = "visit"
    /\ Top.phase = "check"
    /\ Top.i <= Len(Top.edges)
    /\ LET u == Top.u
           edge == Top.edges[Top.i]
           vnode == GetOther(edge, u)
       IN  IF vnode = None
           THEN Panic("get_other returned None") /\ UNCHANGED <<cycles, stack>>
           ELSE IF u \notin DOMAIN pred
           THEN Panic("node not in pred parent") /\ UNCHANGED <<cycles, stack>>
           ELSE IF pred[u] = None
           THEN Panic("parent node is empty") /\ UNCHANGED <<cycles, stack>>
           ELSE LET vid == vnode[1]
                    unode_parent == pred[u][1]
                IN  IF vid # unode_parent
                    THEN /\ stack' = Advance(stack)
                         /\ UNCHANGED <<cycles, pc, panicMsg>>
                    ELSE IF u \notin DOMAIN f \/ vid \notin DOMAIN d
                    THEN /\ Panic("node not in last visit times")
                         /\ UNCHANGED <<cycles, stack>>
                    ELSE IF ~(d[vid] < f[u])
                    THEN /\ stack' = Advance(stack)
                         /\ UNCHANGED <<cycles, pc, panicMsg>>
                    ELSE IF u \notin DOMAIN cycles
                    THEN Panic("node not in cycles") /\ UNCHANGED <<cycles, stack>>
                    ELSE /\ cycles' =
                              [cycles EXCEPT ![u] = Append(@,
                                  CycleInfoCreate(vid, u, d[vid],
                                      IF vid \in DOMAIN f THEN Some(f[vid]) ELSE None,
                                      f[u]))]
                         /\ stack' = Advance(stack)
                         /\ UNCHANGED <<pc, panicMsg>>
    /\ UNCHANGED <<call, inputs, vertices, marked, d, f, pred, identifiers, time,
                   driver, prev>>

\* dfs_forest line 138: the cycle loop is over and the call returns
CheckDone ==
    /\ pc = "visit"
    /\ Top.phase = "check"
    /\ Top.i > Len(Top.edges)
    /\ Return(stack)
    /\ UNCHANGED <<call, inputs, record, vlist, root, forest, result, prev>>

\* The source function ends after its loop without building its DFSResult;
\* following the design document the result is created from the maps of the
\* traversal.
Assemble == DepthFirstResultCreate(forest, preds, ids, <<d, f>>, cycles)

\* depth_first_search after its loop: the call returns its result
DriverDone ==
    /\ pc = "driver"
    /\ vlist = << >>
    /\ result' = Some(Assemble)
    /\ pc' = "done"
    /\ UNCHANGED <<call, inputs, record, vlist, root, preds, ids, forest, stack,
                   panicMsg, prev>>

\* the caller invokes depth_first_search again with the same arguments
Reinvoke ==
    /\ pc = "done"
    /\ prev = None
    /\ prev' = result
    /\ LET s == SetUp(g, start_node)
       IN  /\ vlist' = s.vlist /\ vertices' = s.vertices /\ time' = s.time
           /\ marked' = s.marked /\ preds' = s.preds /\ ids' = s.ids
           /\ forest' = s.forest /\ cycles' = s.cycles /\ d' = s.d /\ f' = s.f
    /\ pred' = EmptyMap
    /\ identifiers' = {}
    /\ root' = None
    /\ result' = None
    /\ pc' = "driver"
    /\ UNCHANGED <<call, inputs, stack, panicMsg>>

Next ==
    \/ DriverNext
    \/ ExploreEdge
    \/ Finish
    \/ CheckEdge
    \/ CheckDone
    \/ DriverDone
    \/ Reinvoke

Spec == Init /\ [][Next]_vars

\* the traversals with the generator that returns every edge
SpecAllEdges == InitAllEdges /\ [][Next]_vars

\* the program is the only thread and runs until it returns or panics
SpecLive == Init /\ [][Next]_vars /\ WF_vars(Next)

-----------------------------------------------------------------------------
(* Vocabulary of the properties *)

Done == pc = "done"

\* the returned DepthFirstResult
Res == result[1]

\* the roots of the trees of the result, and the vertices of the tree of r
Roots == DOMAIN Res.components
TreeOf(r) == {r} \cup Res.components[r]

\* the start vertex is absent, or is a vertex of the graph
StartInGraph == start_node = None \/ start_node[1] \in Vertices(g)

\* [d[u], f[u]] and [d[v], f[v]] have no point in common
IntervalsDisjoint(dd, ff, u, v) == ff[u] < dd[v] \/ ff[v] < dd[u]

\* [d[v], f[v]] lies strictly inside [d[u], f[u]]
IntervalInside(dd, ff, u, v) == dd[u] < dd[v] /\ ff[v] < ff[u]

\* every CycleInfo of the cycle map, as a set
AllCycleInfos(cyc) ==
    UNION {{cyc[u][i] : i \in 1..Len(cyc[u])} : u \in DOMAIN cyc}

\* the number of CycleInfo records of the cycle map
RECURSIVE NbCycleInfos(_, _)
NbCycleInfos(cyc, keys) ==
    IF keys = {} THEN 0
    ELSE LET k == CHOOSE x \in keys : TRUE
         IN  Len(cyc[k]) + NbCycleInfos(cyc, keys \ {k})

\* the vertices joined to a vertex of S by a path of edges of E, the edges
\* read without direction
RECURSIVE Reach(_, _)
Reach(S, E) ==
    LET N == S \cup {e.end : e \in {x \in E : x.start \in S}}
                \cup {e.start : e \in {x \in E : x.end \in S}}
    IN  IF N = S THEN S ELSE Reach(N, E)

Connected(u, v) == v \in Reach({u}, Edges(g))

\* the number of endpoints of edges of S that are v (a self-loop counts twice)
Degree(S, v) ==
    Cardinality({e \in S : e.start = v}) + Cardinality({e \in S : e.end = v})

\* E read without direction has no cycle, parallel edges and self-loops
\* included: every non-empty part of it has a vertex of degree one
UndirectedForest(E) ==
    \A S \in SUBSET E \ {{}} :
        \E v \in {e.start : e \in S} \cup {e.end : e \in S} : Degree(S, v) = 1

\* E has no directed cycle: every non-empty part of it has an edge whose
\* start no edge of the part enters
DirectedAcyclic(E) ==
    \A S \in SUBSET E \ {{}} : \E e \in S : \A x \in S : x.end # e.start

\* the graph has no cycle as seen through the generator
NoCycle ==
    IF edge_generator = "edges_of"
    THEN UndirectedForest(Edges(g))
    ELSE DirectedAcyclic(Edges(g))

-----------------------------------------------------------------------------
(* C1 *)

\* C1: when depth_first_search has returned, the intervals
\* [discover, finish] of any two vertices of one DFS tree are disjoint or
\* one lies strictly inside the other.
C1_Parenthesization ==
    Done =>
        \A r \in Roots : \A u, v \in TreeOf(r) :
            u # v =>
                \/ IntervalsDisjoint(Res.first_visit_times, Res.last_visit_times, u, v)
                \/ IntervalInside(Res.first_visit_times, Res.last_visit_times, u, v)
                \/ IntervalInside(Res.first_visit_times, Res.last_visit_times, v, u)

\* a finished traversal with a tree that holds a nested pair and a disjoint pair
C1_Witness ==
    /\ Done
    /\ \E r \in Roots : \E u, v, w \in TreeOf(r) :
          /\ IntervalInside(d, f, u, v)
          /\ IntervalInside(d, f, u, w)
          /\ IntervalsDisjoint(d, f, v, w)

-----------------------------------------------------------------------------
(* C2 *)

\* C2: in the result of a traversal, components() is a partition of
\* vertices(): every vertex, roots included, is in exactly one component, no
\* component holds an id that is no vertex, and nb_component is the number
\* of component ids, which is the number of tree roots.
C2_ComponentPartition ==
    Done =>
        /\ \A v \in Vertices(g) :
              Cardinality({c \in Roots : v \in Res.components[c]}) = 1
        /\ \A c \in Roots : Res.components[c] \subseteq Vertices(g)
        /\ Res.nb_component = Cardinality(Roots)

-----------------------------------------------------------------------------
(* C4 *)

\* C4: two invocations of depth_first_search on the same graph, generator
\* and start vertex return the same discover map, the same finish map and
\* the same forest edge sets.
C4_Determinism ==
    (Done /\ prev # None) =>
        /\ Res.first_visit_times = prev[1].first_visit_times
        /\ Res.last_visit_times = prev[1].last_visit_times
        /\ Res.forest = prev[1].forest

-----------------------------------------------------------------------------
(* C5 *)

\* C5: on a graph without cycle (an undirected forest under the
\* incident-edges generator, a directed acyclic graph under the out-edges
\* generator) a traversal with check_cycle completes and reports no
\* CycleInfo; the edge back to the immediate parent is never reported.
C5_NoCycleReported ==
    (check_cycle /\ NoCycle /\ StartInGraph) =>
        /\ pc # "panic"
        /\ AllCycleInfos(cycles) = {}

-----------------------------------------------------------------------------
(* C6 *)

\* C6: on the undirected triangle n1-n2, n2-n3, n3-n1, depth_first_search
\* with check_cycle and start n1 completes and reports exactly one
\* CycleInfo, from the vertex discovered last to the root n1.
C6_TriangleOneCycle ==
    (/\ g = TriangleGraph
     /\ edge_generator = "edges_of"
     /\ check_cycle
     /\ start_node = Some(1)) =>
        /\ pc # "panic"
        /\ Done =>
              /\ NbCycleInfos(Res.cycle_info, DOMAIN Res.cycle_info) = 1
              /\ \A c \in AllCycleInfos(Res.cycle_info) :
                    /\ c.ancestor = 1
                    /\ Res.first_visit_times[c.before] = 3

-----------------------------------------------------------------------------
(* C7 *)

\* C7: under the incident-edges generator two vertices have the same
\* component id exactly when a path joins them, and nb_component is the
\* number of connected components.
C7_ComponentsAreConnectedComponents ==
    (Done /\ edge_generator = "edges_of") =>
        /\ \A u, v \in Vertices(g) :
              (\E c \in Roots : u \in Res.components[c] /\ v \in Res.components[c])
                  <=> Connected(u, v)
        /\ Res.nb_component =
              Cardinality({Reach({v}, Edges(g)) : v \in Vertices(g)})

-----------------------------------------------------------------------------
(* C8 *)

\* C8: with a start vertex that is no vertex of the graph the call fails
\* with VertexNotFound: the start vertex does not enter the traversed
\* vertices, no DepthFirstResult is produced, and the failure is an error
\* value, not a panic.
C8_StartNotFound ==
    (/\ start_node # None
     /\ start_node[1] \notin Vertices(g)
     /\ pc \in {"done", "panic"}) =>
        /\ start_node[1] \notin vertices
        /\ \A v \in DOMAIN marked : ~marked[v]
        /\ result = None
        /\ pc # "panic"

-----------------------------------------------------------------------------
(* C9 *)

\* C9: a supplied start vertex is the first vertex visited (the root of the
\* first tree, with discover time 1), and the other roots are taken in
\* lexicographic order of identifier.
C9_StartFirst ==
    (Done /\ start_node # None) =>
        /\ start_node[1] \in Roots
        /\ Res.first_visit_times[start_node[1]] = 1
        /\ \A r1, r2 \in Roots \ {start_node[1]} :
              r1 < r2 => Res.first_visit_times[r1] < Res.first_visit_times[r2]

-----------------------------------------------------------------------------
(* C10 *)

-----------------------------------------------------------------------------
(* C11 *)

\* the vertices that carry a self-loop edge
SelfLoopVertices == {e.start : e \in {x \in Edges(g) : x.start = x.end}}

\* C11: on a graph with a self-loop on u, depth_first_search with
\* check_cycle terminates without failing on a root without parent, and
\* reports the self-loop as a back edge with ancestor = descendant = u.
C11_SelfLoopReported ==
    (check_cycle /\ StartInGraph /\ SelfLoopVertices # {}) =>
        /\ pc # "panic"
        /\ Done =>
              \A u \in SelfLoopVertices :
                  /\ u \in DOMAIN Res.cycle_info
                  /\ \E c \in AllCycleInfos(Res.cycle_info) :
                        c.ancestor = u /\ c.before = u

-----------------------------------------------------------------------------
(* Operations of the graph data model, called on their own *)

\* the subsets of S with at most k elements
RECURSIVE SubsetsUpTo(_, _)
SubsetsUpTo(S, k) ==
    IF k = 0 THEN {{}}
    ELSE LET P == SubsetsUpTo(S, k - 1)
         IN  P \cup {p \cup {x} : p \in P, x \in S}

\* the edges the operations are called on: between any two vertices, under
\* the identifier of MkEdge or under the identifier of the reversed edge, so
\* that two edges can share an identifier and differ in their endpoints
OpEdges ==
    UNION {{[id |-> i, start |-> s, end |-> t] : i \in {10 * s + t, 10 * t + s}} :
              s \in NodeIds, t \in NodeIds}

OpEdgeSets == SubsetsUpTo(OpEdges, MaxEdges)

OpNodeSets == SUBSET NodeIds

\* the traversal is not running
Idle ==
    /\ g = GraphNew({}, {})
    /\ edge_generator = "edges_of"
    /\ check_cycle = FALSE
    /\ start_node = None
    /\ vlist = << >>
    /\ vertices = {}
    /\ time = 0
    /\ marked = EmptyMap
    /\ preds = EmptyMap
    /\ ids = EmptyMap
    /\ forest = EmptyMap
    /\ cycles = EmptyMap
    /\ d = EmptyMap
    /\ f = EmptyMap
    /\ pred = EmptyMap
    /\ identifiers = {}
    /\ stack = << >>
    /\ root = None
    /\ result = None
    /\ pc = "idle"
    /\ panicMsg = ""
    /\ prev = None

traversal == <<inputs, record, driver, stack, pc, panicMsg, prev>>

OpsInit ==
    /\ Idle
    /\ call = NoCall

\* get_other(e, n)
CallGetOther ==
    /\ call = NoCall
    /\ \E e \in OpEdges, n \in NodeIds :
          call' = [op |-> "get_other", e |-> e, n |-> n, out |-> GetOther(e, n)]
    /\ UNCHANGED traversal

Constructors ==
    {"new", "new_refs", "from_edgeset", "from_edge_node_set", "based_on_node_set"}

\* the graph a constructor builds from an edge set and a node set
Construct(ctor, edges, nodes) ==
    CASE ctor = "new" -> GraphNew(nodes, edges)
      [] ctor = "new_refs" -> GraphNewRefs(nodes, edges)
      [] ctor = "from_edgeset" -> FromEdgeset(edges)
      [] ctor = "from_edge_node_set" -> FromEdgeNodeSet(edges, nodes)
      [] ctor = "based_on_node_set" -> BasedOnNodeSet(edges, nodes)

\* a constructor of Graph, followed by vertices(), edges() and is_empty on
\* its result
CallConstruct ==
    /\ call = NoCall
    /\ \E ctor \in Constructors, edges \in OpEdgeSets, nodes \in OpNodeSets :
          LET gr == Construct(ctor, edges, nodes)
          IN  call' = [op |-> "construct", ctor |-> ctor, edges |-> edges,
                       nodes |-> nodes, graph |-> gr,
                       vertices |-> Vertices(gr), out_edges |-> Edges(gr),
                       is_empty |-> IsEmpty(gr)]
    /\ UNCHANGED traversal

\* the graphs the operations are called on
OpGraphs == {GraphNew(nodes, edges) : nodes \in OpNodeSets, edges \in OpEdgeSets}

\* neighbors_of(g, n)
CallNeighborsOf ==
    /\ call = NoCall
    /\ \E gr \in OpGraphs, n \in NodeIds :
          call' = [op |-> "neighbors_of", graph |-> gr, n |-> n,
                   out |-> NeighborsOf(gr, n)]
    /\ UNCHANGED traversal

\* edges_of(g, n), outgoing_edges_of(g, n) and incoming_edges_of(g, n)
CallEdgesOf ==
    /\ call = NoCall
    /\ \E gr \in OpGraphs, n \in NodeIds :
          call' = [op |-> "edges_of", graph |-> gr, n |-> n,
                   out |-> EdgesOf(gr, n),
                   outgoing |-> OutgoingEdgesOf(gr, n),
                   incoming |-> IncomingEdgesOf(gr, n)]
    /\ UNCHANGED traversal

\* get_subgraph_by_vertices(g, ns, edge_policy), and the same extraction on
\* the graph made of the node and edge references it returned
CallSubgraph ==
    /\ call = NoCall
    /\ \E gr \in OpGraphs, ns \in OpNodeSets, p \in EdgePolicies :
          LET r == GetSubgraphByVertices(gr, ns, p)
              sub == FromEdgeNodeRefsSet(r.edges, r.nodes)
          IN  call' = [op |-> "subgraph", graph |-> gr, ns |-> ns, policy |-> p,
                       out |-> r, sub |-> sub,
                       again |-> GetSubgraphByVertices(sub, ns, p)]
    /\ UNCHANGED traversal

\* a == b on two edges, and a HashSet<Edge> filled with a, then with b
CallInsert ==
    /\ call = NoCall
    /\ \E a \in OpEdges, b \in OpEdges :
          \E s1 \in HashSetInsert({}, a) :
             \E s2 \in HashSetInsert(s1, b) :
                call' = [op |-> "insert", a |-> a, b |-> b,
                         eq |-> EdgeEq(a, b), set |-> s2]
    /\ UNCHANGED traversal

\* vertex_by_id(g, vid)
CallVertexById ==
    /\ call = NoCall
    /\ \E gr \in OpGraphs, vid \in NodeIds :
          \E out \in VertexById(gr, vid) :
             call' = [op |-> "vertex_by_id", graph |-> gr, id |-> vid, out |-> out]
    /\ UNCHANGED traversal

\* edge_by_id(g, id)
CallEdgeById ==
    /\ call = NoCall
    /\ \E gr \in OpGraphs, eid \in {e.id : e \in OpEdges} :
          \E out \in EdgeById(gr, eid) :
             call' = [op |-> "edge_by_id", graph |-> gr, id |-> eid, out |-> out]
    /\ UNCHANGED traversal

\* the caller drops the value a call returned
CallReturn ==
    /\ call # NoCall
    /\ call' = NoCall
    /\ UNCHANGED traversal

OpsNext ==
    \/ CallGetOther
    \/ CallConstruct
    \/ CallNeighborsOf
    \/ CallEdgesOf
    \/ CallSubgraph
    \/ CallInsert
    \/ CallVertexById
    \/ CallEdgeById
    \/ CallReturn

SpecOps == OpsInit /\ [][OpsNext]_vars

-----------------------------------------------------------------------------
(* C12 *)

\* C12: get_other(e, n) returns the end node when n is the start of e,
\* otherwise the start node when n is the end of e, and None when n is no
\* endpoint of e.
C12_GetOther ==
    call.op = "get_other" =>
        /\ call.n = call.e.start => call.out = Some(call.e.end)
        /\ (call.n # call.e.start /\ call.n = call.e.end) =>
              call.out = Some(call.e.start)
        /\ (call.n # call.e.start /\ call.n # call.e.end) => call.out = None

\* get_other has been called with the end of an edge that is no self-loop
C12_Witness ==
    /\ call.op = "get_other"
    /\ call.e.start # call.e.end
    /\ call.n = call.e.end
    /\ call.out = Some(call.e.start)

\* get_other has been called with a node that is no endpoint of the edge
C12_WitnessAbsent ==
    /\ call.op = "get_other"
    /\ call.n \notin {call.e.start, call.e.end}
    /\ call.out = None

-----------------------------------------------------------------------------
(* C13 *)

\* the endpoints of a set of edges
Endpoints(es) == {e.start : e \in es} \cup {e.end : e \in es}

\* C13: for a graph built by any constructor, vertices() is the stored
\* isolated nodes united with the start and the end of every stored edge, so
\* both endpoints of every edge of edges() are vertices, supplied as nodes or
\* not.
C13_VerticesDerived ==
    call.op = "construct" =>
        /\ call.vertices = call.graph.nodes \cup Endpoints(call.graph.edges)
        /\ call.graph.nodes \cap Endpoints(call.graph.edges) = {}
        /\ \A e \in call.out_edges :
              e.start \in call.vertices /\ e.end \in call.vertices

\* a graph has been built that keeps an edge with an endpoint outside of the
\* supplied node set, next to a stored isolated node
C13_Witness ==
    /\ call.op = "construct"
    /\ call.ctor = "from_edge_node_set"
    /\ call.graph.nodes # {}
    /\ \E e \in call.out_edges : e.start \notin call.nodes

-----------------------------------------------------------------------------
(* C14 *)

\* C14: a graph built from an empty edge set has no vertex and is empty, and
\* is_empty is true exactly when vertices() is empty: one edge or one
\* isolated node makes it false.
C14_IsEmpty ==
    call.op = "construct" =>
        /\ (call.ctor = "from_edgeset" /\ call.edges = {}) =>
              (call.vertices = {} /\ call.is_empty)
        /\ call.is_empty <=> (call.vertices = {})
        /\ (call.graph.edges # {} \/ call.graph.nodes # {}) => ~call.is_empty

\* from_edgeset has been called on the empty edge set
C14_Witness ==
    /\ call.op = "construct"
    /\ call.ctor = "from_edgeset"
    /\ call.edges = {}
    /\ call.is_empty

\* is_empty has answered false on a graph that has an isolated node only
C14_WitnessNode ==
    /\ call.op = "construct"
    /\ call.graph.edges = {}
    /\ call.graph.nodes # {}
    /\ ~call.is_empty

-----------------------------------------------------------------------------
(* C15 *)

\* C15: on a vertex n of g, neighbors_of returns exactly the other endpoints
\* of the edges of g incident to n; on a node that is no vertex of g it
\* returns the typed error NotInGraph to the caller.
C15_NeighborsOf ==
    call.op = "neighbors_of" =>
        IF call.n \in Vertices(call.graph)
        THEN /\ ~call.out.panic
             /\ call.out.nodes =
                   {e.end : e \in {x \in call.graph.edges : x.start = call.n}}
                   \cup {e.start : e \in {x \in call.graph.edges : x.end = call.n}}
        ELSE /\ ~call.out.panic
             /\ call.out.err = Some("NotInGraph")

\* the part of C15 about the vertices of g
C15_NeighborsOfVertex ==
    (call.op = "neighbors_of" /\ call.n \in Vertices(call.graph)) =>
        /\ ~call.out.panic
        /\ call.out.nodes =
              {e.end : e \in {x \in call.graph.edges : x.start = call.n}}
              \cup {e.start : e \in {x \in call.graph.edges : x.end = call.n}}

-----------------------------------------------------------------------------
(* C16 *)

-----------------------------------------------------------------------------
(* C17, C18 *)

-----------------------------------------------------------------------------
(* C19 *)

-----------------------------------------------------------------------------
(* C20 *)

\* C20: two edges with the same identifier compare equal whatever their
\* endpoints, and an edge set into which both are inserted holds them as a
\* single element.
C20_SameIdSingleElement ==
    (call.op = "insert" /\ call.a.id = call.b.id) =>
        /\ call.eq
        /\ Cardinality(call.set) = 1

\* the part of C20 about ==
C20_SameIdEqual ==
    call.op = "insert" => (call.eq <=> call.a.id = call.b.id)

-----------------------------------------------------------------------------
(* Set operations, called on their own *)

\* difference_edges(a1, a2)
CallDifferenceEdges ==
    /\ call = NoCall
    /\ \E a1 \in OpEdgeSets, a2 \in OpEdgeSets :
          \E out \in DifferenceEdges(a1, a2) :
             call' = [op |-> "difference_edges", a1 |-> a1, a2 |-> a2, out |-> out]
    /\ UNCHANGED traversal

\* a whole-graph set operation, followed by vertices() and edges() on its
\* result
CallGraphSetOp ==
    /\ call = NoCall
    /\ \E op \in GraphSetOps, a1 \in OpGraphs, a2 \in OpGraphs :
          \E gr \in GraphSetOp(op, a1, a2) :
             call' = [op |-> "graph_set_op", fn |-> op, a1 |-> a1, a2 |-> a2,
                      graph |-> gr, vertices |-> Vertices(gr),
                      out_edges |-> Edges(gr)]
    /\ UNCHANGED traversal

SetNext ==
    \/ CallDifferenceEdges
    \/ CallGraphSetOp
    \/ CallReturn

SpecSet == OpsInit /\ [][SetNext]_vars

-----------------------------------------------------------------------------
(* C21 *)

\* e has in S an edge with the same identifier and the same endpoints
HasSameEdge(S, e) ==
    \E x \in S : x.id = e.id /\ x.start = e.start /\ x.end = e.end

\* C21: difference_edges(A, B) returns the edges of A that have no edge in B
\* with the same identifier and the same endpoints; an edge of A whose
\* identifier occurs in B with other endpoints is retained.
C21_DifferenceEdges ==
    call.op = "difference_edges" =>
        call.out = {e \in call.a1 : ~HasSameEdge(call.a2, e)}

\* the part of C21 that does not rest on two edges sharing an identifier
C21_DifferenceEdgesDistinctIds ==
    call.op = "difference_edges" =>
        /\ call.out \subseteq {e \in call.a1 : ~HasSameEdge(call.a2, e)}
        /\ \A e \in call.a1 :
              (\A x \in (call.a1 \cup call.a2) \ {e} : x.id # e.id) =>
                 (e \in call.out <=> e \notin call.a2)

\* difference_edges has dropped the only edge of A, whose identifier is in B
\* on an edge with other endpoints
C21_Dropped ==
    /\ call.op = "difference_edges"
    /\ Cardinality(call.a1) = 1
    /\ \E e \in call.a1 : \E x \in call.a2 : x.id = e.id /\ x.start # e.start
    /\ call.out = {}

\* difference_edges has retained it
C21_Retained ==
    /\ call.op = "difference_edges"
    /\ Cardinality(call.a1) = 1
    /\ \E e \in call.a1 : \E x \in call.a2 : x.id = e.id /\ x.start # e.start
    /\ call.out = call.a1

-----------------------------------------------------------------------------
(* C22 *)

\* C22: a lookup by identifier that has no match is reported to the caller
\* as the typed result VertexNotFound / EdgeNotFound: no panic, no default
\* object.
C22_LookupMiss ==
    /\ (call.op = "vertex_by_id" /\ call.id \notin Vertices(call.graph)) =>
          /\ ~call.out.panic
          /\ call.out.err = Some("VertexNotFound")
          /\ call.out.value = None
    /\ (call.op = "edge_by_id" /\ call.id \notin {e.id : e \in call.graph.edges}) =>
          /\ ~call.out.panic
          /\ call.out.err = Some("EdgeNotFound")
          /\ call.out.value = None

\* what holds of the lookups: a match is returned, a miss never yields an
\* object
C22_LookupHit ==
    /\ call.op = "vertex_by_id" =>
          IF call.id \in Vertices(call.graph)
          THEN ~call.out.panic /\ call.out.value = Some(call.id)
          ELSE call.out.value = None
    /\ call.op = "edge_by_id" =>
          IF call.id \in {e.id : e \in call.graph.edges}
          THEN /\ ~call.out.panic
               /\ \E e \in call.graph.edges : e.id = call.id /\ call.out.value = Some(e)
          ELSE call.out.value = None

-----------------------------------------------------------------------------
(* C23 *)

\* the set operation fn on two plain sets
PlainSetOp(fn, A, B) ==
    CASE fn = "union_graph" -> A \cup B
      [] fn = "intersection" -> A \cap B
      [] fn = "difference" -> A \ B
      [] fn = "symmetric_difference" -> (A \ B) \cup (B \ A)

\* C23: for union_graph, intersection, difference and symmetric_difference
\* on a1 and a2, the vertices of the result are that operation on the
\* vertices of a1 and a2, and its edges that operation on their edges.
C23_GraphSetOps ==
    call.op = "graph_set_op" =>
        /\ call.vertices =
              PlainSetOp(call.fn, Vertices(call.a1), Vertices(call.a2))
        /\ call.out_edges = PlainSetOp(call.fn, call.a1.edges, call.a2.edges)

\* no identifier is on two different edges of a1 and a2
C23_Ids ==
    \A x \in call.a1.edges \cup call.a2.edges :
       \A y \in call.a1.edges \cup call.a2.edges : x.id = y.id => x = y

\* what holds of the four operations when no two edges share an identifier:
\* the edges are the operation on the edges; the vertices are the operation
\* on the vertices for union_graph and intersection
C23_UnionIntersection ==
    (call.op = "graph_set_op" /\ C23_Ids) =>
        /\ call.out_edges = PlainSetOp(call.fn, call.a1.edges, call.a2.edges)
        /\ call.fn \in {"union_graph", "intersection"} =>
              call.vertices =
                 PlainSetOp(call.fn, Vertices(call.a1), Vertices(call.a2))

\* difference has returned a graph with a vertex that is a vertex of a2, on
\* graphs where no two edges share an identifier
C23_DifferenceKeepsVertex ==
    /\ call.op = "graph_set_op"
    /\ call.fn = "difference"
    /\ C23_Ids
    /\ \E n \in call.vertices : n \in Vertices(call.a2)

-----------------------------------------------------------------------------
(* C24 *)

\* the timestamps written so far: the first and last visit times that are
\* not the sentinel
Stamped ==
    {<<"d", u>> : u \in {x \in DOMAIN d : d[x] # USIZE_MAX}}
    \cup {<<"f", u>> : u \in {x \in DOMAIN f : f[x] # USIZE_MAX}}

StampOf(w) == IF w[1] = "d" THEN d[w[2]] ELSE f[w[2]]

\* C24: the clock starts at 0 and moves by one at each discovery and each
\* finish, each time is written once: the times written so far are pairwise
\* distinct and are 1..time; when the traversal ends no vertex holds the
\* sentinel, the times are 1..2*|V| and d[u] < f[u] for every vertex.
C24_Clock ==
    /\ Cardinality(Stamped) = time
    /\ {StampOf(w) : w \in Stamped} = 1..time
    /\ \A u \in DOMAIN f : f[u] # USIZE_MAX => d[u] < f[u]
    /\ Done =>
          /\ DOMAIN d = Vertices(g) /\ DOMAIN f = Vertices(g)
          /\ \A u \in Vertices(g) :
                d[u] # USIZE_MAX /\ f[u] # USIZE_MAX /\ d[u] < f[u]
          /\ time = 2 * Cardinality(Vertices(g))
          /\ {d[u] : u \in Vertices(g)} \cup {f[u] : u \in Vertices(g)}
                = 1..(2 * Cardinality(Vertices(g)))

\* a traversal of a graph with three vertices, one of them reached through
\* an edge, has ended
C24_Witness ==
    /\ Done
    /\ Cardinality(Vertices(g)) = 3
    /\ \E u \in Vertices(g) : f[u] > d[u] + 1
    /\ time = 6

-----------------------------------------------------------------------------
(* C25 *)

Unvisited(u) == ~marked[u]
Discovered(u) == marked[u] /\ f[u] = USIZE_MAX
Finished(u) == marked[u] /\ f[u] # USIZE_MAX

\* within one call of depth_first_search a vertex only moves forward:
\* marked stays true, a written time stays, a vertex finishes only after it
\* was discovered, and it is discovered (visited) only when unvisited
C25_Forward ==
    [][pc # "done" =>
          \A u \in DOMAIN marked :
             /\ marked[u] => (marked'[u] /\ d'[u] = d[u])
             /\ f[u] # USIZE_MAX => f'[u] = f[u]
             /\ f'[u] # USIZE_MAX => marked[u]
             /\ d'[u] # d[u] => ~marked[u]]_vars

\* the traversal returns with every vertex of the graph finished
C25_Terminates ==
    <>(Done /\ \A u \in Vertices(g) : u \in DOMAIN marked /\ Finished(u))

\* C25: each vertex moves only forward through Unvisited, Discovered,
\* Finished, visited at most once, and on every graph, with cycles,
\* parallel edges and self-loops, the traversal terminates with every vertex
\* Finished (the start vertex, when there is one, being a vertex of the
\* graph).
C25_ForwardAndTerminates ==
    /\ C25_Forward
    /\ StartInGraph => C25_Terminates

\* the part of C25 that holds: without check_cycle and with a start vertex
\* of the graph, the traversal terminates with every vertex finished
C25_TerminatesPlain ==
    (~check_cycle /\ StartInGraph) => C25_Terminates

-----------------------------------------------------------------------------
(* C26 *)

\* the predecessor of v in the tree of r
PredIn(r, v) == Res.trees[r][v]

\* e joins u and v
Joins(e, u, v) == (e.start = u /\ e.end = v) \/ (e.start = v /\ e.end = u)

\* u was the vertex being processed when v was discovered: v was discovered
\* and finished between the two times of u, and inside no other vertex
\* discovered after u
ProcessedAtDiscovery(u, v) ==
    /\ d[u] < d[v] /\ f[v] < f[u]
    /\ \A w \in Vertices(g) \ {u, v} : ~(d[u] < d[w] /\ d[w] < d[v] /\ f[v] < f[w])

\* the properties of C26 for the tree of r, its component being comp
PredTree(r, comp) ==
    /\ PredIn(r, r) = None
    /\ \A v \in comp \ {r} :
          /\ PredIn(r, v) # None
          /\ PredIn(r, v)[1] \in comp
          /\ ProcessedAtDiscovery(PredIn(r, v)[1], v)
          /\ Cardinality({e \in Res.forest[r] : Joins(e, v, PredIn(r, v)[1])}) = 1
    /\ \A e \in Res.forest[r] :
          \E v \in comp \ {r} : Joins(e, v, PredIn(r, v)[1])
    /\ Cardinality(Res.forest[r]) = Cardinality(comp) - 1

\* C26: at the end of a traversal pred is None exactly for the tree roots;
\* for every other vertex v it is the vertex that was being processed when v
\* was discovered and lies in the component of v; the tree edges of a
\* component are one edge per non-root vertex, the edge joining v to
\* pred[v], so there are |component| - 1 of them.
C26_PredAndTreeEdges ==
    Done =>
        /\ \A v \in Vertices(g) :
              (\A r \in Roots : PredIn(r, v) = None) <=> v \in Roots
        /\ \A r \in Roots : PredTree(r, Res.components[r])

\* what holds: the same with the root counted in its component
C26_WithRoot ==
    Done =>
        /\ \A v \in Vertices(g) :
              (\A r \in Roots : PredIn(r, v) = None) <=> v \in Roots
        /\ \A r \in Roots : PredTree(r, TreeOf(r))

\* a traversal has ended with a tree of three vertices
C26_ThreeVertexTree ==
    /\ Done
    /\ \E r \in Roots : Cardinality(TreeOf(r)) = 3

-----------------------------------------------------------------------------
(* C27 *)

\* E read without direction has a cycle through three or more distinct
\* vertices: a non-empty part of it without self-loop and without two edges
\* on one pair of vertices, in which every vertex has degree two
UndirectedCycle3(E) ==
    \E S \in SUBSET E \ {{}} :
        /\ \A e \in S : e.start # e.end
        /\ \A x \in S : \A y \in S \ {x} : {x.start, x.end} # {y.start, y.end}
        /\ \A v \in {e.start : e \in S} \cup {e.end : e \in S} : Degree(S, v) = 2

\* the graph has a cycle as seen through the generator
HasCycle ==
    IF edge_generator = "edges_of"
    THEN UndirectedCycle3(Edges(g))
    ELSE ~DirectedAcyclic(Edges(g))

\* C27: with check_cycle, a traversal of a graph that has a cycle as seen
\* through the generator (an undirected cycle through three or more
\* vertices, any directed cycle under the out-edges generator) does not fail
\* and reports at least one CycleInfo.
C27_CycleReported ==
    (check_cycle /\ HasCycle /\ StartInGraph) =>
        /\ pc # "panic"
        /\ Done => AllCycleInfos(Res.cycle_info) # {}

\* a traversal with check_cycle of the two-vertex directed cycle has ended
\* in a panic
C27_TwoCyclePanics ==
    /\ check_cycle
    /\ edge_generator = "outgoing_edges_of"
    /\ Edges(g) = {MkEdge(1, 2), MkEdge(2, 1)}
    /\ pc = "panic"

\* a traversal with check_cycle of the undirected triangle has ended in a
\* panic
C27_TrianglePanics ==
    /\ check_cycle
    /\ edge_generator = "edges_of"
    /\ g = TriangleGraph
    /\ pc = "panic"

\* no traversal with check_cycle of a graph with a cycle returns
C27_NeverReturns == (check_cycle /\ HasCycle) => ~Done

-----------------------------------------------------------------------------
(* C28 *)

\* the cycle map never holds a CycleInfo, in no state of no traversal: what
\* C28 says of the stored records has no case to be observed in
C28_NothingStored == AllCycleInfos(cycles) = {} /\ DOMAIN cycles = {}

-----------------------------------------------------------------------------
(* C29 *)

\* the generator returns for some vertex an edge that does not have it as an
\* endpoint
Malformed ==
    \E u \in Vertices(g) :
       \E e \in EdgeGenerator(edge_generator, g, u).edges : GetOther(e, u) = None

\* C29: when the generator returns for u an edge of which u is no endpoint,
\* the traversal skips that edge and completes normally, with the result it
\* has without that edge: the traversal is never aborted, and it returns
\* with every vertex finished and no tree edge that is malformed for its
\* tree.
C29_MalformedEdgeSkipped ==
    (Malformed /\ ~check_cycle /\ StartInGraph) =>
        /\ pc # "panic"
        /\ Done =>
              /\ \A u \in Vertices(g) : f[u] # USIZE_MAX
              /\ \A r \in Roots : \A e \in Res.forest[r] :
                    {e.start, e.end} \subseteq TreeOf(r)

\* a traversal has met an edge that does not have the visited vertex as an
\* endpoint and has ended in a panic
C29_Aborted ==
    /\ Malformed
    /\ pc = "panic"
    /\ panicMsg = "get_other returned None"

\* with the generators of the repository no edge is malformed
C29_WellFormedGenerators == edge_generator \in Generators => ~Malformed

-----------------------------------------------------------------------------
(* C30 *)

\* C30: check_cycle only affects the cycle reports. On the inputs on which
\* the traversal without check_cycle completes (every input whose start
\* vertex, if any, is a vertex of the graph: C25_TerminatesPlain), the
\* traversal with check_cycle does not fail either; without check_cycle the
\* cycle map stays empty.
C30_CheckCycleFrame ==
    /\ (check_cycle /\ StartInGraph) => pc # "panic"
    /\ ~check_cycle => AllCycleInfos(cycles) = {}

\* no traversal without check_cycle and with a start vertex of the graph
\* panics, and its cycle map stays empty
C30_WithoutCheck ==
    (~check_cycle /\ StartInGraph) =>
        /\ pc # "panic"
        /\ AllCycleInfos(cycles) = {}

\* a traversal with check_cycle has panicked in the cycle loop of a vertex
\* it had just finished
C30_PanicInCycleLoop ==
    /\ check_cycle
    /\ StartInGraph
    /\ pc = "panic"
    /\ panicMsg \in {"parent node is empty", "node not in cycles"}

====
